---- MODULE Spec2Model ----
(***************************************************************************)
(* Monte Carlo Tree Search over two environments:                          *)
(*   - the board game (tictactoe/ttt.py driven by tictactoe/mcts.py),      *)
(*   - the card game (blackjack/main.py).                                  *)
(* The board environments (tictactoe/ttt.py, tictactoe/ttt5.py) are also   *)
(* called directly: constructor, reset, step and clone.  The board search  *)
(* is also run with every environment an object of its own on a heap.      *)
(* The search tree is a sequence of node records; a node is named by its   *)
(* index in that sequence (its creation order), the root is node 1.        *)
(* Python's None is the value None below.  A dict is a sequence of         *)
(* <<key, value>> pairs in insertion order.                                *)
(*                                                                         *)
(* Floating point scores are kept in fixed point, in units of 5 * 10^-8;   *)
(* exploration weights are given in tenths (14 is 1.4, 10 is 1.0).         *)
(***************************************************************************)
EXTENDS Integers, Sequences, FiniteSets, TLC

VARIABLES
    engine,           \* "ttt" (tictactoe/mcts.py) or "bj" (blackjack/main.py)
    initial_env,      \* ttt: the caller's environment handed to mcts; env: the object;
                      \* obj: the index of the caller's object in heap.objects
    num_simulations,  \* the budget of the search call
    i,                \* number of completed iterations of the simulation loop
    pc,               \* position inside mcts / mcts_search
    tree,             \* the nodes created so far
    node,             \* the driver's local variable node
    current_env,      \* the rollout's local state; env: the clone, once taken;
                      \* obj: the index of the rollout's object
    result,           \* the rollout's return value
    ret,              \* the value returned by the search call
    err,              \* the exception raised, "none" when there is none
    passes,           \* history: per node, the simulations whose path entered it
    call_in,          \* a direct call of a function or method: its arguments
    call_out,         \* its outputs
    heap              \* direct environment calls: the board arrays allocated;
                      \* obj: the environment objects and their arrays

vars == <<engine, initial_env, num_simulations, i, pc, tree, node, current_env,
          result, ret, err, passes, call_in, call_out, heap>>

\* ---------------------------------------------------------------- bounds

\* Largest simulation budget explored.
MaxSims == 4

\* Largest number of step calls made on an environment and its clone.
MaxEnvCalls == 5

\* Largest simulation budget explored in the card game.
BjMaxSims == 3

\* Largest number of direct expand calls explored on one tree.
MaxCalls == 3

\* Largest simulation budget explored with the environments kept as objects.
ObjMaxSims == 3

\* Largest number of children, and of visits per child, given to the score functions.
MaxKids == 3

MaxVisit == 2

\* ------------------------------------------------------------- constants

\* Python's None (no parent, no action, no child).
None == -1

\* One unit of score: 1.0 is Unit, so a score is kept in steps of 5 * 10^-8.  The
\* scores of two children with at most 16 visits under a parent with at most 16
\* visits that differ as floats differ by 19 * 10^-8 or more.
Unit == 20000000

\* float('inf') and float('-inf'): above and below every score.
PosInf == 2147483647

NegInf == -2147483647

\* best_ucb = -100 of the card game's choose_best_child: -100 times Unit.
BjBestInit == -2000000000

\* ------------------------------------------------------- general helpers

Abs(x) == IF x < 0 THEN -x ELSE x

Range(s) == {s[k] : k \in 1..Len(s)}

\* list.remove(x): the list without the first occurrence of x.
RECURSIVE list_remove(_, _)
list_remove(s, x) ==
    IF s = <<>> THEN <<>>
    ELSE IF Head(s) = x THEN Tail(s)
    ELSE <<Head(s)>> \o list_remove(Tail(s), x)

\* d[key] = value on a dict: an existing key keeps its place, a new key goes last.
dict_set(d, key, value) ==
    IF \E k \in 1..Len(d) : d[k][1] = key
    THEN [k \in 1..Len(d) |-> IF d[k][1] = key THEN <<key, value>> ELSE d[k]]
    ELSE Append(d, <<key, value>>)

dict_keys(d) == {d[k][1] : k \in 1..Len(d)}

dict_values(d) == [k \in 1..Len(d) |-> d[k][2]]

\* floor(ln(n) * 10^8) for n = 1..16.
LnE8 == <<0, 69314718, 109861228, 138629436, 160943791, 179175946, 194591014,
          207944154, 219722457, 230258509, 239789527, 248490664, 256494935,
          263905732, 270805020, 277258872>>

\* Heron's iteration downwards from a guess g >= floor(sqrt(x)), for x >= 1.
RECURSIVE isqrt_from(_, _)
isqrt_from(x, g) ==
    LET h == (g + (x \div g)) \div 2
    IN IF h >= g THEN g ELSE isqrt_from(x, h)

\* floor(sqrt(x)) for 0 <= x < 2^31.
isqrt(x) == IF x = 0 THEN 0 ELSE isqrt_from(x, 46340)

\* The largest t in lo..hi with (r * 10^4 + t)^2 <= (r * r + rem) * 10^8.
RECURSIVE fraction_between(_, _, _, _)
fraction_between(r, rem, lo, hi) ==
    IF lo >= hi THEN lo
    ELSE LET mid == (lo + hi + 1) \div 2
         IN IF 2 * r * mid + (mid * mid + 9999) \div 10000 <= rem * 10000
            THEN fraction_between(r, rem, mid, hi)
            ELSE fraction_between(r, rem, lo, mid - 1)

\* math.sqrt on a number x / 10^8: floor(sqrt(x / 10^8) * 10^8), for 0 <= x < 2^31.
\* With r = floor(sqrt(x)) and rem = x - r * r, the next four digits t lie between
\* rem * 10^4 / (2r + 1) and rem * 10^4 / 2r.
sqrt_e8(x) ==
    LET r == isqrt(x)
        rem == x - r * r
    IN IF r = 0 THEN 0
       ELSE r * 10000
            + fraction_between(r, rem, (rem * 10000) \div (2 * r + 1),
                               IF rem = 2 * r THEN 9999 ELSE (rem * 10000) \div (2 * r))

\* exploration_weight * root in units of score: the weight is given in tenths and
\* the root in units of 10^-8, so the product is floor(weight * root / 50).
times_weight(weight, root) ==
    LET whole == (weight \div 10) * root
        tenths == (weight % 10) * root
    IN (whole \div 5) + (tenths \div 50)
       + ((10 * (whole % 5) + (tenths % 50)) \div 50)

\* ------------------------------------------------ board game: ttt.py

EmptyBoard == [k \in 1..9 |-> 0]

\* The eight lines in the order check_winner tests them; each returns its first cell.
Lines == << <<0, 1, 2>>, <<3, 4, 5>>, <<6, 7, 8>>,
            <<0, 3, 6>>, <<1, 4, 7>>, <<2, 5, 8>>,
            <<0, 4, 8>>, <<2, 4, 6>> >>

RECURSIVE winner_from(_, _)
winner_from(board, k) ==
    IF k > Len(Lines) THEN 0
    ELSE LET l == Lines[k]
         IN IF Abs(board[l[1] + 1] + board[l[2] + 1] + board[l[3] + 1]) = 3
            THEN board[l[1] + 1]
            ELSE winner_from(board, k + 1)

check_winner(board) == winner_from(board, 1)

RECURSIVE valid_from(_, _)
valid_from(board, k) ==
    IF k > 8 THEN <<>>
    ELSE (IF board[k + 1] = 0 THEN <<k>> ELSE <<>>) \o valid_from(board, k + 1)

\* The list get_valid_actions returns.
get_valid_actions(env) == valid_from(env.board, 0)

\* The environment after get_valid_actions ran on it (it sets done on a full board).
after_get_valid_actions(env) ==
    IF get_valid_actions(env) = <<>> THEN [env EXCEPT !.done = TRUE] ELSE env

\* is_done: the value returned and the environment left behind.
is_done(env) ==
    IF check_winner(env.board) # 0 \/ get_valid_actions(env) = <<>>
    THEN [value |-> TRUE, env |-> [env EXCEPT !.done = TRUE]]
    ELSE [value |-> FALSE, env |-> after_get_valid_actions(env)]

\* reset on any environment.
reset(env) ==
    LET e == [env EXCEPT !.board = EmptyBoard, !.current_player = 1]
    IN [is_done(e).env EXCEPT !.done = is_done(e).value]

\* Variant: the constructor does not end with reset().
TicTacToeEnv_without_reset(state, player) ==
    LET e0 == [board |-> state, current_player |-> player, done |-> FALSE]
    IN [is_done(e0).env EXCEPT !.done = is_done(e0).value]

\* TicTacToeEnv(state, player): the constructor ends with reset().
TicTacToeEnv(state, player) ==
    LET e0 == [board |-> state, current_player |-> player, done |-> FALSE]
    IN reset([is_done(e0).env EXCEPT !.done = is_done(e0).value])

\* step: the environment afterwards and the returned reward, done flag and info.
step(env, action) ==
    IF env.done
    THEN [env |-> env, reward |-> 0, done |-> TRUE, info |-> "Game already finished"]
    ELSE IF env.board[action + 1] # 0
    THEN [env |-> env, reward |-> -1, done |-> FALSE, info |-> "Invalid move"]
    ELSE LET moved == [env EXCEPT !.board[action + 1] = env.current_player]
             winner == check_winner(moved.board)
             ended == IF winner # 0 THEN [moved EXCEPT !.done = TRUE]
                      ELSE after_get_valid_actions(moved)
             after == IF ended.done THEN ended
                      ELSE [ended EXCEPT !.current_player = -ended.current_player]
         IN [env |-> after,
             reward |-> IF winner # 0 THEN winner * env.current_player ELSE 0,
             done |-> after.done,
             info |-> IF winner = 1 THEN "X" ELSE IF winner = -1 THEN "O"
                      ELSE IF after.done THEN "Draw" ELSE "None"]

\* clone: a fresh environment given this one's board, player and done flag.
clone(env) ==
    [TicTacToeEnv(EmptyBoard, 1) EXCEPT !.board = env.board,
                                        !.current_player = env.current_player,
                                        !.done = env.done]

\* The environment reached from reset by playing the moves in order.
RECURSIVE play(_, _)
play(env, moves) ==
    IF moves = <<>> THEN env ELSE play(step(env, Head(moves)).env, Tail(moves))

\* ------------------------------------------------ board game: ttt5.py
\* The N-in-a-row environment: a size x size board kept row by row, cell
\* (row, col) at index row * size + col + 1, and a win_length.

ttt5_cell(board, size, row, col) == board[row * size + col + 1]

\* The sum of win_length cells starting at (row, col) and advancing by (dr, dc).
RECURSIVE window_sum(_, _, _, _, _, _, _)
window_sum(board, size, row, col, dr, dc, len) ==
    IF len = 0 THEN 0
    ELSE ttt5_cell(board, size, row, col)
         + window_sum(board, size, row + dr, col + dc, dr, dc, len - 1)

\* One of the four double loops of check_winner: start cells (r, c) with
\* r in rows[1]..rows[2] and c in cols[1]..cols[2], r outermost, from (r, c) on;
\* the first complete window returns its start cell, 0 when there is none.
RECURSIVE scan_windows(_, _, _, _, _, _, _, _, _)
scan_windows(board, size, win_length, rows, cols, dr, dc, r, c) ==
    IF r > rows[2] \/ cols[1] > cols[2] THEN 0
    ELSE IF c > cols[2]
    THEN scan_windows(board, size, win_length, rows, cols, dr, dc, r + 1, cols[1])
    ELSE IF Abs(window_sum(board, size, r, c, dr, dc, win_length)) = win_length
    THEN ttt5_cell(board, size, r, c)
    ELSE scan_windows(board, size, win_length, rows, cols, dr, dc, r, c + 1)

\* check_winner: rows, columns, diagonals, anti-diagonals, in that order.
ttt5_check_winner(env) ==
    LET b == env.board
        n == env.size
        w == env.win_length
        in_rows == scan_windows(b, n, w, <<0, n - 1>>, <<0, n - w>>, 0, 1, 0, 0)
        in_cols == scan_windows(b, n, w, <<0, n - w>>, <<0, n - 1>>, 1, 0, 0, 0)
        in_diag == scan_windows(b, n, w, <<0, n - w>>, <<0, n - w>>, 1, 1, 0, 0)
        in_anti == scan_windows(b, n, w, <<0, n - w>>, <<w - 1, n - 1>>, 1, -1, 0, w - 1)
    IN IF in_rows # 0 THEN in_rows
       ELSE IF in_cols # 0 THEN in_cols
       ELSE IF in_diag # 0 THEN in_diag
       ELSE in_anti

RECURSIVE ttt5_valid_from(_, _)
ttt5_valid_from(board, k) ==
    IF k >= Len(board) THEN <<>>
    ELSE (IF board[k + 1] = 0 THEN <<k>> ELSE <<>>) \o ttt5_valid_from(board, k + 1)

ttt5_get_valid_actions(env) == ttt5_valid_from(env.board, 0)

\* Variant: get_valid_actions does not set done on a full board.
ttt5_get_valid_actions_only(env) == env

ttt5_after_get_valid_actions(env) ==
    IF ttt5_get_valid_actions(env) = <<>> THEN [env EXCEPT !.done = TRUE] ELSE env

ttt5_is_done(env) ==
    IF ttt5_check_winner(env) # 0 \/ ttt5_get_valid_actions(env) = <<>>
    THEN [value |-> TRUE, env |-> [env EXCEPT !.done = TRUE]]
    ELSE [value |-> FALSE, env |-> ttt5_after_get_valid_actions(env)]

ttt5_zeros(size) == [k \in 1..(size * size) |-> 0]

ttt5_reset(env) ==
    LET e == [env EXCEPT !.board = ttt5_zeros(env.size), !.current_player = 1]
    IN [ttt5_is_done(e).env EXCEPT !.done = ttt5_is_done(e).value]

\* TicTacToeEnv(state, player, size, win_length) of ttt5.py; state=None is the
\* array of zeros.  The constructor ends with reset().
ttt5_TicTacToeEnv(state, player, size, win_length) ==
    LET e0 == [board |-> state, current_player |-> player, done |-> FALSE,
               size |-> size, win_length |-> win_length,
               action_space |-> size * size]
    IN ttt5_reset([ttt5_is_done(e0).env EXCEPT !.done = ttt5_is_done(e0).value])

\* Variant: step does not test whether the cell is occupied.
ttt5_step_over_occupied(env, action) ==
    IF env.done
    THEN [env |-> env, reward |-> 0, done |-> TRUE, info |-> "Game already finished"]
    ELSE LET moved == [env EXCEPT !.board[action + 1] = env.current_player]
             winner == ttt5_check_winner(moved)
             ended == IF winner # 0 THEN [moved EXCEPT !.done = TRUE]
                      ELSE ttt5_after_get_valid_actions(moved)
             after == IF ended.done THEN ended
                      ELSE [ended EXCEPT !.current_player = -ended.current_player]
         IN [env |-> after,
             reward |-> IF winner # 0 THEN winner * env.current_player ELSE 0,
             done |-> after.done,
             info |-> IF winner = 1 THEN "X" ELSE IF winner = -1 THEN "O"
                      ELSE IF after.done THEN "Draw" ELSE "None"]

ttt5_step(env, action) ==
    IF env.done
    THEN [env |-> env, reward |-> 0, done |-> TRUE, info |-> "Game already finished"]
    ELSE IF env.board[action + 1] # 0
    THEN [env |-> env, reward |-> -1, done |-> FALSE, info |-> "Invalid move"]
    ELSE LET moved == [env EXCEPT !.board[action + 1] = env.current_player]
             winner == ttt5_check_winner(moved)
             ended == IF winner # 0 THEN [moved EXCEPT !.done = TRUE]
                      ELSE ttt5_after_get_valid_actions(moved)
             after == IF ended.done THEN ended
                      ELSE [ended EXCEPT !.current_player = -ended.current_player]
         IN [env |-> after,
             reward |-> IF winner # 0 THEN winner * env.current_player ELSE 0,
             done |-> after.done,
             info |-> IF winner = 1 THEN "X" ELSE IF winner = -1 THEN "O"
                      ELSE IF after.done THEN "Draw" ELSE "None"]

ttt5_clone(env) ==
    [ttt5_TicTacToeEnv(ttt5_zeros(env.size), 1, env.size, env.win_length)
        EXCEPT !.board = env.board,
               !.current_player = env.current_player,
               !.done = env.done]

\* ------------------------------------------------ board game: mcts.py

\* Variant: an unvisited node scores 0 instead of infinity.
calculate_ucb_unvisited_zero(node_value, node_visits, parent_visits, exploration_weight) ==
    IF node_visits = 0 THEN 0
    ELSE (node_value * Unit) \div node_visits
         + times_weight(exploration_weight,
                        sqrt_e8(LnE8[parent_visits] \div node_visits))

\* calculate_ucb of mcts.py: exploitation + w * sqrt(ln(parent_visits) / node_visits).
calculate_ucb(node_value, node_visits, parent_visits, exploration_weight) ==
    IF node_visits = 0 THEN PosInf
    ELSE LET exploitation == (node_value * Unit) \div node_visits
             exploration == times_weight(exploration_weight,
                                         sqrt_e8(LnE8[parent_visits] \div node_visits))
         IN exploitation + exploration

\* Variant: the node does not record the action that led to it.
Node_without_action(env, parent, action) ==
    [env |-> clone(env), parent |-> parent, action |-> None,
     reward |-> 0, visit |-> 0, children |-> <<>>,
     untried_action |-> get_valid_actions(env)]

\* Node.__init__.
Node(env, parent, action) ==
    [env |-> clone(env), parent |-> parent, action |-> action,
     reward |-> 0, visit |-> 0, children |-> <<>>,
     untried_action |-> get_valid_actions(env)]

\* Variant: the expanded action stays in the untried list.
expand_child_keeping_action(t, n, action) ==
    LET new_env == step(clone(t[n].env), action).env
        next_node == Len(t) + 1
    IN [tree |-> Append([t EXCEPT ![n].children = dict_set(@, action, next_node)],
                        Node(new_env, n, action)),
        node |-> next_node, err |-> "none"]

\* Node.expand_child on node n of tree t: the tree afterwards, the node returned and
\* the exception raised.  The child is registered before the action is removed from
\* the untried list, so a ValueError of list.remove leaves the child in place.
expand_child(t, n, action) ==
    LET new_env == step(clone(t[n].env), action).env
        next_node == Len(t) + 1
        registered == Append([t EXCEPT ![n].children = dict_set(@, action, next_node)],
                             Node(new_env, n, action))
    IN IF action \in Range(t[n].untried_action)
       THEN [tree |-> [registered EXCEPT ![n].untried_action = list_remove(@, action)],
             node |-> next_node, err |-> "none"]
       ELSE [tree |-> registered, node |-> None, err |-> "ValueError"]

\* Variant: a later child with an equal score replaces the best one.
RECURSIVE best_from_last(_, _, _, _, _, _)
best_from_last(stats, parent_visits, explore_rate, k, best_ucb, best_child) ==
    IF k > Len(stats) THEN best_child
    ELSE LET ucb == calculate_ucb(stats[k].reward, stats[k].visit, parent_visits,
                                  explore_rate)
         IN IF ucb >= best_ucb
            THEN best_from_last(stats, parent_visits, explore_rate, k + 1, ucb, k)
            ELSE best_from_last(stats, parent_visits, explore_rate, k + 1, best_ucb,
                                best_child)

\* The loop of Node.choose_best_child over the children's (reward, visit) pairs in
\* iteration order, from child k on: the index of the best child, None when none.
RECURSIVE best_from(_, _, _, _, _, _)
best_from(stats, parent_visits, explore_rate, k, best_ucb, best_child) ==
    IF k > Len(stats) THEN best_child
    ELSE LET ucb == calculate_ucb(stats[k].reward, stats[k].visit, parent_visits,
                                  explore_rate)
         IN IF ucb > best_ucb
            THEN best_from(stats, parent_visits, explore_rate, k + 1, ucb, k)
            ELSE best_from(stats, parent_visits, explore_rate, k + 1, best_ucb, best_child)

\* Node.choose_best_child on node n: the chosen child, None when n has no children.
choose_best_child(t, n, explore_rate) ==
    LET kids == dict_values(t[n].children)
        stats == [k \in 1..Len(kids) |-> [reward |-> t[kids[k]].reward,
                                          visit |-> t[kids[k]].visit]]
        best == best_from(stats, t[n].visit, explore_rate, 1, NegInf, None)
    IN IF kids = <<>> THEN None
       ELSE IF best = None THEN None ELSE kids[best]

\* The value Node.rollout returns once its loop has ended in environment final.
rollout_result(self_env, final) ==
    LET winner == check_winner(final.board)
    IN IF winner = self_env.current_player THEN 1
       ELSE IF winner = -self_env.current_player THEN -1
       ELSE 0

\* Variant: the walk up the tree ends at the node's parent.
backpropagate_to_parent_only(t, n, res) ==
    LET here == [t EXCEPT ![n].visit = @ + 1, ![n].reward = @ + res]
    IN IF t[n].parent # None
       THEN [here EXCEPT ![t[n].parent].visit = @ + 1, ![t[n].parent].reward = @ - res]
       ELSE here

\* Variant: the result is recorded at the node alone, the parents are not walked.
backpropagate_leaf_only(t, n, res) ==
    [t EXCEPT ![n].visit = @ + 1, ![n].reward = @ + res]

\* Variant: the result goes up the tree with its sign unchanged.
RECURSIVE backpropagate_same_sign(_, _, _)
backpropagate_same_sign(t, n, res) ==
    LET here == [t EXCEPT ![n].visit = @ + 1, ![n].reward = @ + res]
    IN IF t[n].parent # None THEN backpropagate_same_sign(here, t[n].parent, res)
       ELSE here

\* Node.backpropagate on node n.
RECURSIVE backpropagate(_, _, _)
backpropagate(t, n, res) ==
    LET here == [t EXCEPT ![n].visit = @ + 1, ![n].reward = @ + res]
    IN IF t[n].parent # None THEN backpropagate(here, t[n].parent, -res) ELSE here

\* The nodes from n up to the root.
RECURSIVE path_to_root(_, _)
path_to_root(t, n) ==
    IF t[n].parent = None THEN {n} ELSE {n} \cup path_to_root(t, t[n].parent)

\* Starting positions of the board game, each reached from reset by legal play.
StartMoves ==
    { <<0, 3, 1, 4, 8>>,              \* O to move, 5 wins; cells 2 5 6 7 empty
      <<0, 1, 2, 4, 3, 5>>,           \* X to move, cells 6 7 8 empty, 6 wins
      <<0, 1, 2, 4, 3, 5, 7>>,        \* O to move, cells 6 8 empty
      <<0, 1, 2, 4, 3, 5, 7, 6>>,     \* X to move, cell 8 alone empty
      <<0, 3, 1, 4, 5, 7, 6, 8>>,     \* X to move, cell 2 alone empty and it wins
      <<0, 1, 2, 4, 3, 5, 7, 6, 8>>,  \* full board, a draw
      <<0, 3, 1, 4, 2>> }             \* X has won, four cells empty

StartEnvs == {play(TicTacToeEnv(EmptyBoard, 1), m) : m \in StartMoves}

Idle == [engine |-> "none"]

NoCall == [called |-> FALSE]

\* mcts line 122: the root is built from the caller's environment.
InitTTT ==
    /\ engine = "ttt"
    /\ \E e \in StartEnvs :
          /\ initial_env = after_get_valid_actions(e)
          /\ tree = <<Node(e, None, None)>>
    /\ num_simulations \in 0..MaxSims
    /\ i = 0
    /\ pc = "loop"
    /\ node = None
    /\ current_env = Idle
    /\ result = 0
    /\ ret = None
    /\ err = "none"
    /\ passes = <<0>>
    /\ call_in = NoCall
    /\ call_out = NoCall
    /\ heap = <<>>

\* mcts lines 124-125: one more iteration starts at the root.
T_StartSim ==
    /\ engine = "ttt" /\ pc = "loop" /\ i < num_simulations
    /\ node' = 1
    /\ pc' = "select"
    /\ passes' = [passes EXCEPT ![1] = @ + 1]
    /\ UNCHANGED <<heap, engine, initial_env, num_simulations, i, tree, current_env,
                   result, ret, err, call_in, call_out>>

\* mcts lines 128-129: one descent of the selection loop.
T_Select ==
    /\ engine = "ttt" /\ pc = "select"
    /\ Len(tree[node].untried_action) = 0 /\ ~tree[node].env.done
    /\ LET best == choose_best_child(tree, node, 14)
       IN IF best = None
          THEN /\ err' = "AttributeError" /\ pc' = "raised"
               /\ node' = None /\ passes' = passes
          ELSE /\ node' = best /\ pc' = "select" /\ err' = err
               /\ passes' = [passes EXCEPT ![best] = @ + 1]
    /\ UNCHANGED <<heap, engine, initial_env, num_simulations, i, tree, current_env,
                   result, ret, call_in, call_out>>

\* Variant: line 132 does not test done, a terminal node is expanded too.
T_Expand_on_terminal ==
    /\ engine = "ttt" /\ pc = "select"
    /\ ~(Len(tree[node].untried_action) = 0 /\ ~tree[node].env.done)
    /\ \E action \in Range(tree[node].untried_action) :
          LET e == expand_child(tree, node, action)
          IN /\ tree' = e.tree
             /\ node' = e.node
             /\ passes' = Append(passes, 1)
             /\ current_env' = clone(e.tree[e.node].env)
    /\ pc' = "rollout"
    /\ UNCHANGED <<heap, engine, initial_env, num_simulations, i, result, ret, err,
                   call_in, call_out>>

\* mcts lines 132-133 and 59: expansion of a random untried action; the rollout
\* then clones the new node's environment.
T_Expand ==
    /\ engine = "ttt" /\ pc = "select"
    /\ ~(Len(tree[node].untried_action) = 0 /\ ~tree[node].env.done)
    /\ ~tree[node].env.done
    /\ \E action \in Range(tree[node].untried_action) :
          LET e == expand_child(tree, node, action)
          IN /\ tree' = e.tree
             /\ node' = e.node
             /\ passes' = Append(passes, 1)
             /\ current_env' = clone(e.tree[e.node].env)
    /\ pc' = "rollout"
    /\ UNCHANGED <<heap, engine, initial_env, num_simulations, i, result, ret, err,
                   call_in, call_out>>

\* mcts line 132 false: a terminal node is not expanded; line 59.
T_SkipExpand ==
    /\ engine = "ttt" /\ pc = "select"
    /\ ~(Len(tree[node].untried_action) = 0 /\ ~tree[node].env.done)
    /\ tree[node].env.done
    /\ current_env' = clone(tree[node].env)
    /\ pc' = "rollout"
    /\ UNCHANGED <<heap, engine, initial_env, num_simulations, i, tree, node, passes,
                   result, ret, err, call_in, call_out>>

\* Node.rollout lines 61-64: one random move.
T_RolloutStep ==
    /\ engine = "ttt" /\ pc = "rollout" /\ ~current_env.done
    /\ \E action \in Range(get_valid_actions(current_env)) :
          current_env' = step(after_get_valid_actions(current_env), action).env
    /\ UNCHANGED <<heap, engine, initial_env, num_simulations, i, pc, tree, node, passes,
                   result, ret, err, call_in, call_out>>

\* Node.rollout lines 67-72: the loop has ended, the result is returned.
T_RolloutEnd ==
    /\ engine = "ttt" /\ pc = "rollout" /\ current_env.done
    /\ result' = rollout_result(tree[node].env, current_env)
    /\ pc' = "backprop"
    /\ UNCHANGED <<heap, engine, initial_env, num_simulations, i, tree, node, passes,
                   current_env, ret, err, call_in, call_out>>

\* mcts line 139.
T_Backpropagate ==
    /\ engine = "ttt" /\ pc = "backprop"
    /\ tree' = backpropagate(tree, node, result)
    /\ i' = i + 1
    /\ pc' = "loop"
    /\ UNCHANGED <<heap, engine, initial_env, num_simulations, node, passes, current_env,
                   result, ret, err, call_in, call_out>>

\* mcts line 149: root.choose_best_child(0).action.
T_Return ==
    /\ engine = "ttt" /\ pc = "loop" /\ i >= num_simulations
    /\ LET best == choose_best_child(tree, 1, 0)
       IN IF best = None
          THEN /\ err' = "AttributeError" /\ pc' = "raised" /\ ret' = ret
          ELSE /\ ret' = tree[best].action /\ pc' = "done" /\ err' = err
    /\ UNCHANGED <<heap, engine, initial_env, num_simulations, i, tree, node, passes,
                   current_env, result, call_in, call_out>>

NextTTT ==
    \/ T_StartSim \/ T_Select \/ T_Expand \/ T_SkipExpand
    \/ T_RolloutStep \/ T_RolloutEnd \/ T_Backpropagate \/ T_Return

SpecTTT == InitTTT /\ [][NextTTT]_vars

\* ------------------------------------------------ card game: blackjack/main.py

\* calculate_ucb of main.py: exploitation + w * sqrt(2 * ln(parent_visits) / node_visits).
bj_calculate_ucb(node_value, node_visits, parent_visits, exploration_weight) ==
    IF node_visits = 0 THEN PosInf
    ELSE LET exploitation == (node_value * Unit) \div node_visits
             exploration == times_weight(exploration_weight,
                                sqrt_e8((2 * LnE8[parent_visits]) \div node_visits))
         IN exploitation + exploration

\* MCTSNode.__init__; a state is <<player_sum, dealer_showing, usable_ace>>.
MCTSNode(state, parent, action) ==
    [state |-> state, parent |-> parent, action |-> action, children |-> <<>>,
     visits |-> 0, value |-> 0, untried_actions |-> <<0, 1>>,
     is_terminated |-> (state[1] > 21 \/ action = 0)]

is_fully_expanded(n) == Len(n.untried_actions) = 0

\* The cards min(10, randint(1, 14)) can give.
Cards == {IF r < 10 THEN r ELSE 10 : r \in 1..13}

\* One card added to a hand <<sum, usable_ace>> (main.py lines 53-65 and 101-113).
draw_card(sum, usable_ace, card) ==
    LET drawn == IF card = 1
                 THEN (IF sum + 11 <= 21 THEN <<sum + 11, 1>> ELSE <<sum + 1, usable_ace>>)
                 ELSE <<sum + card, usable_ace>>
    IN IF drawn[1] > 21 /\ drawn[2] # 0 THEN <<drawn[1] - 10, 0>> ELSE drawn

\* Variant: the draw action leaves the hand as it was.
simulate_step_without_card(state, action, card) == state

\* MCTSNode.simulate_step with the card the draw gives.
simulate_step(state, action, card) ==
    IF action = 1
    THEN LET hand == draw_card(state[1], state[3], card)
         IN <<hand[1], state[2], hand[2]>>
    ELSE state

\* MCTSNode.expand on node n: list.remove raises before the child is created.
expand(t, n, action, card) ==
    LET next_state == simulate_step(t[n].state, action, card)
        next_node == Len(t) + 1
    IN IF action \in Range(t[n].untried_actions)
       THEN [tree |-> Append([t EXCEPT ![n].untried_actions = list_remove(@, action),
                                       ![n].children = dict_set(@, action, next_node)],
                             MCTSNode(next_state, n, action)),
             node |-> next_node, err |-> "none"]
       ELSE [tree |-> t, node |-> None, err |-> "ValueError"]

\* The loop of MCTSNode.choose_best_child over the children's (value, visits) pairs.
RECURSIVE bj_best_from(_, _, _, _, _, _)
bj_best_from(stats, parent_visits, exploration_weight, k, best_ucb, best_child) ==
    IF k > Len(stats) THEN best_child
    ELSE LET ucb == bj_calculate_ucb(stats[k].value, stats[k].visits, parent_visits,
                                     exploration_weight)
         IN IF ucb > best_ucb
            THEN bj_best_from(stats, parent_visits, exploration_weight, k + 1, ucb, k)
            ELSE bj_best_from(stats, parent_visits, exploration_weight, k + 1,
                              best_ucb, best_child)

\* MCTSNode.choose_best_child on node n.
bj_choose_best_child(t, n, exploration_weight) ==
    LET kids == dict_values(t[n].children)
        stats == [k \in 1..Len(kids) |-> [value |-> t[kids[k]].value,
                                          visits |-> t[kids[k]].visits]]
        best == bj_best_from(stats, t[n].visits, exploration_weight, 1, BjBestInit, None)
    IN IF best = None THEN None ELSE kids[best]

\* MCTSNode.get_reward lines 116-123: the hands are compared.
compare_hands(dealer_sum, player_sum) ==
    IF dealer_sum > 21 THEN 1
    ELSE IF dealer_sum > player_sum THEN -1
    ELSE IF dealer_sum < player_sum THEN 1
    ELSE 0

\* Variant: the walk up the tree stops below the root.
RECURSIVE bj_backpropagate_below_root(_, _, _)
bj_backpropagate_below_root(t, n, reward) ==
    IF t[n].parent = None THEN t
    ELSE bj_backpropagate_below_root(
            [t EXCEPT ![n].visits = @ + 1, ![n].value = @ + reward], t[n].parent, reward)

\* MCTSNode.backpropagate on node n.
RECURSIVE bj_backpropagate(_, _, _)
bj_backpropagate(t, n, reward) ==
    LET here == [t EXCEPT ![n].visits = @ + 1, ![n].value = @ + reward]
    IN IF t[n].parent # None THEN bj_backpropagate(here, t[n].parent, reward) ELSE here

\* Root states of the card game; the last one is already bust.
StartStates == { <<20, 10, 0>>, <<19, 10, 1>>, <<22, 10, 0>> }

\* main.py line 200: mcts_search(root=MCTSNode(state), ...).
InitBJ ==
    /\ engine = "bj"
    /\ initial_env = Idle
    /\ \E s \in StartStates : tree = <<MCTSNode(s, None, None)>>
    /\ num_simulations \in 0..BjMaxSims
    /\ i = 0
    /\ pc = "loop"
    /\ node = None
    /\ current_env = Idle
    /\ result = 0
    /\ ret = None
    /\ err = "none"
    /\ passes = <<0>>
    /\ call_in = NoCall
    /\ call_out = NoCall
    /\ heap = <<>>

\* mcts_search lines 165-167.
B_StartSim ==
    /\ engine = "bj" /\ pc = "loop" /\ i < num_simulations
    /\ node' = 1
    /\ pc' = "select"
    /\ passes' = [passes EXCEPT ![1] = @ + 1]
    /\ UNCHANGED <<heap, engine, initial_env, num_simulations, i, tree, current_env,
                   result, ret, err, call_in, call_out>>

\* mcts_search lines 169-170: one descent of the selection loop.
B_Select ==
    /\ engine = "bj" /\ pc = "select"
    /\ ~tree[node].is_terminated /\ is_fully_expanded(tree[node])
    /\ LET best == bj_choose_best_child(tree, node, 10)
       IN IF best = None
          THEN /\ err' = "AttributeError" /\ pc' = "raised"
               /\ node' = None /\ passes' = passes
          ELSE /\ node' = best /\ pc' = "select" /\ err' = err
               /\ passes' = [passes EXCEPT ![best] = @ + 1]
    /\ UNCHANGED <<heap, engine, initial_env, num_simulations, i, tree, current_env,
                   result, ret, call_in, call_out>>

\* The rollout's locals at line 140-141 for node n of tree t.
rollout_start(t, n) ==
    [state |-> t[n].state, action |-> None, original_state |-> None,
     dealer_sum |-> None, dealer_usable_ace |-> None]

\* mcts_search lines 173-175, then rollout lines 140-141.
B_Expand ==
    /\ engine = "bj" /\ pc = "select"
    /\ ~(~tree[node].is_terminated /\ is_fully_expanded(tree[node]))
    /\ ~tree[node].is_terminated /\ ~is_fully_expanded(tree[node])
    /\ \E action \in Range(tree[node].untried_actions) : \E card \in Cards :
          LET e == expand(tree, node, action, card)
          IN /\ tree' = e.tree
             /\ node' = e.node
             /\ passes' = Append(passes, 1)
             /\ current_env' = rollout_start(e.tree, e.node)
    /\ pc' = "rollout"
    /\ UNCHANGED <<heap, engine, initial_env, num_simulations, i, result, ret, err,
                   call_in, call_out>>

\* mcts_search line 173 false, then rollout lines 140-141.
B_SkipExpand ==
    /\ engine = "bj" /\ pc = "select"
    /\ ~(~tree[node].is_terminated /\ is_fully_expanded(tree[node]))
    /\ ~(~tree[node].is_terminated /\ ~is_fully_expanded(tree[node]))
    /\ current_env' = rollout_start(tree, node)
    /\ pc' = "rollout"
    /\ UNCHANGED <<heap, engine, initial_env, num_simulations, i, tree, node, passes,
                   result, ret, err, call_in, call_out>>

\* The test of rollout line 144 on the rollout's locals.
rollout_over(locals) == locals.state[1] > 21 \/ locals.action = 0

\* rollout lines 151-152: a random action, and the card if it draws.
B_RolloutStep ==
    /\ engine = "bj" /\ pc = "rollout" /\ ~rollout_over(current_env)
    /\ \E action \in {0, 1} : \E card \in Cards :
          current_env' = [current_env EXCEPT
                             !.action = action,
                             !.state = simulate_step(current_env.state, action, card)]
    /\ UNCHANGED <<heap, engine, initial_env, num_simulations, i, pc, tree, node, passes,
                   result, ret, err, call_in, call_out>>

\* rollout lines 144-149 with get_reward lines 85-95 and 125: the rollout is over,
\* the node's state is set aside in original_state and replaced by the final state,
\* and get_reward runs on it with the node's own action.  Where get_reward returns
\* at once (lines 88-89 and 125) line 148 has put the node's state back; where the
\* dealer plays the node holds the final state until B_DealerEnd.
B_RolloutEnd ==
    /\ engine = "bj" /\ pc = "rollout" /\ rollout_over(current_env)
    /\ LET locals == [current_env EXCEPT !.original_state = tree[node].state]
       IN IF current_env.state[1] > 21
          THEN /\ result' = -1 /\ pc' = "backprop"
               /\ current_env' = locals /\ tree' = tree
          ELSE IF tree[node].action = 0
          THEN /\ current_env' = [locals EXCEPT
                     !.dealer_sum = current_env.state[2],
                     !.dealer_usable_ace = IF current_env.state[2] = 1 THEN 1 ELSE 0]
               /\ tree' = [tree EXCEPT ![node].state = current_env.state]
               /\ pc' = "dealer" /\ result' = result
          ELSE /\ result' = 0 /\ pc' = "backprop"
               /\ current_env' = locals /\ tree' = tree
    /\ UNCHANGED <<heap, engine, initial_env, num_simulations, i, node, passes,
                   ret, err, call_in, call_out>>

\* get_reward lines 98-113: the dealer draws below 17.
B_DealerDraw ==
    /\ engine = "bj" /\ pc = "dealer" /\ current_env.dealer_sum < 17
    /\ \E card \in Cards :
          LET hand == draw_card(current_env.dealer_sum, current_env.dealer_usable_ace,
                                card)
          IN current_env' = [current_env EXCEPT !.dealer_sum = hand[1],
                                                !.dealer_usable_ace = hand[2]]
    /\ UNCHANGED <<heap, engine, initial_env, num_simulations, i, pc, tree, node, passes,
                   result, ret, err, call_in, call_out>>

\* get_reward lines 116-123 on the state the node holds, then rollout lines 148-149:
\* the node's own state is put back.
B_DealerEnd ==
    /\ engine = "bj" /\ pc = "dealer" /\ current_env.dealer_sum >= 17
    /\ result' = compare_hands(current_env.dealer_sum, tree[node].state[1])
    /\ tree' = [tree EXCEPT ![node].state = current_env.original_state]
    /\ pc' = "backprop"
    /\ UNCHANGED <<heap, engine, initial_env, num_simulations, i, node, passes,
                   current_env, ret, err, call_in, call_out>>

\* mcts_search line 181.
B_Backpropagate ==
    /\ engine = "bj" /\ pc = "backprop"
    /\ tree' = bj_backpropagate(tree, node, result)
    /\ i' = i + 1
    /\ pc' = "loop"
    /\ UNCHANGED <<heap, engine, initial_env, num_simulations, node, passes, current_env,
                   result, ret, err, call_in, call_out>>

\* mcts_search line 184: root.choose_best_child(exploration_weight=0).action.
B_Return ==
    /\ engine = "bj" /\ pc = "loop" /\ i >= num_simulations
    /\ LET best == bj_choose_best_child(tree, 1, 0)
       IN IF best = None
          THEN /\ err' = "AttributeError" /\ pc' = "raised" /\ ret' = ret
          ELSE /\ ret' = tree[best].action /\ pc' = "done" /\ err' = err
    /\ UNCHANGED <<heap, engine, initial_env, num_simulations, i, tree, node, passes,
                   current_env, result, call_in, call_out>>

NextBJ ==
    \/ B_StartSim \/ B_Select \/ B_Expand \/ B_SkipExpand
    \/ B_RolloutStep \/ B_RolloutEnd \/ B_DealerDraw \/ B_DealerEnd
    \/ B_Backpropagate \/ B_Return

SpecBJ == InitBJ /\ [][NextBJ]_vars

\* ------------------------------------------------ the two searches

Init == InitTTT \/ InitBJ

Next == NextTTT \/ NextBJ

Spec == Init /\ [][Next]_vars

\* ------------------------------------------------ the score functions alone

\* The statistics a child can have: its reward lies within its visits.
KidStats ==
    UNION {{[reward |-> v, visit |-> n] : v \in (-n)..n} : n \in 0..MaxVisit}

RECURSIVE sum_visits(_)
sum_visits(stats) ==
    IF stats = <<>> THEN 0 ELSE Head(stats).visit + sum_visits(Tail(stats))

\* A parent's children and visit count (every backpropagation through a child
\* passes through the parent, so the parent has at least the children's visits),
\* and an exploration weight in tenths.
InitUcb ==
    /\ engine = "ucb"
    /\ pc = "call"
    /\ \E len \in 1..MaxKids : \E stats \in [1..len -> KidStats] :
       \E extra \in 0..1 : \E w \in {0, 10, 14} :
          call_in = [stats |-> stats, parent_visits |-> sum_visits(stats) + extra,
                     exploration_weight |-> w]
    /\ call_out = NoCall
    /\ initial_env = Idle /\ num_simulations = 0 /\ i = 0 /\ tree = <<>>
    /\ node = None /\ current_env = Idle /\ result = 0 /\ ret = None
    /\ err = "none" /\ passes = <<>> /\ heap = <<>>

\* mcts.py: calculate_ucb on every child, and the loop of choose_best_child.
U_Board ==
    /\ engine = "ucb" /\ pc = "call"
    /\ call_out' =
          [called |-> TRUE, fn |-> "ttt",
           ucb |-> [k \in 1..Len(call_in.stats) |->
                       calculate_ucb(call_in.stats[k].reward, call_in.stats[k].visit,
                                     call_in.parent_visits, call_in.exploration_weight)],
           best |-> best_from(call_in.stats, call_in.parent_visits,
                              call_in.exploration_weight, 1, NegInf, None)]
    /\ pc' = "returned"
    /\ UNCHANGED <<heap, engine, initial_env, num_simulations, i, tree, node, current_env,
                   result, ret, err, passes, call_in>>

\* main.py: calculate_ucb on every child, and the loop of choose_best_child.
U_Card ==
    /\ engine = "ucb" /\ pc = "call"
    /\ LET stats == [k \in 1..Len(call_in.stats) |->
                        [value |-> call_in.stats[k].reward,
                         visits |-> call_in.stats[k].visit]]
       IN call_out' =
             [called |-> TRUE, fn |-> "bj",
              ucb |-> [k \in 1..Len(stats) |->
                          bj_calculate_ucb(stats[k].value, stats[k].visits,
                                           call_in.parent_visits,
                                           call_in.exploration_weight)],
              best |-> bj_best_from(stats, call_in.parent_visits,
                                    call_in.exploration_weight, 1, BjBestInit, None)]
    /\ pc' = "returned"
    /\ UNCHANGED <<heap, engine, initial_env, num_simulations, i, tree, node, current_env,
                   result, ret, err, passes, call_in>>

NextUcb == U_Board \/ U_Card

SpecUcb == InitUcb /\ [][NextUcb]_vars

\* ------------------------------------------------ direct calls of expansion

InitApi ==
    /\ engine \in {"ttt", "bj"}
    /\ IF engine = "ttt"
       THEN \E e \in StartEnvs :
               /\ initial_env = after_get_valid_actions(e)
               /\ tree = <<Node(e, None, None)>>
       ELSE /\ initial_env = Idle
            /\ \E st \in StartStates : tree = <<MCTSNode(st, None, None)>>
    /\ pc = "api"
    /\ i = 0
    /\ call_in = NoCall /\ call_out = NoCall
    /\ num_simulations = 0 /\ node = None /\ current_env = Idle /\ result = 0
    /\ ret = None /\ err = "none" /\ passes = <<>> /\ heap = <<>>

\* Node.expand_child(action) called on any node with any cell.
A_ExpandChild ==
    /\ engine = "ttt" /\ pc = "api" /\ i < MaxCalls
    /\ \E n \in 1..Len(tree) : \E action \in 0..8 :
          LET e == expand_child(tree, n, action)
          IN /\ tree' = e.tree
             /\ call_in' = [called |-> TRUE, n |-> n, action |-> action]
             /\ call_out' = [called |-> TRUE, node |-> e.node, err |-> e.err]
    /\ i' = i + 1
    /\ UNCHANGED <<heap, engine, initial_env, num_simulations, pc, node, current_env,
                   result, ret, err, passes>>

\* MCTSNode.expand(action) called on any node with either action.
A_Expand ==
    /\ engine = "bj" /\ pc = "api" /\ i < MaxCalls
    /\ \E n \in 1..Len(tree) : \E action \in {0, 1} : \E card \in Cards :
          LET e == expand(tree, n, action, card)
          IN /\ tree' = e.tree
             /\ call_in' = [called |-> TRUE, n |-> n, action |-> action]
             /\ call_out' = [called |-> TRUE, node |-> e.node, err |-> e.err]
    /\ i' = i + 1
    /\ UNCHANGED <<heap, engine, initial_env, num_simulations, pc, node, current_env,
                   result, ret, err, passes>>

NextApi == A_ExpandChild \/ A_Expand

SpecApi == InitApi /\ [][NextApi]_vars

\* ------------------------------------------------ direct calls of the environments
\* An environment object holds its attributes; its board attribute is a
\* reference to an array in heap, which step writes in place.

\* The classes explored: ttt.py, and ttt5.py with a size and a win_length.
EnvClasses == {<<"ttt", 3, 3>>, <<"ttt5", 3, 2>>, <<"ttt5", 2, 2>>, <<"ttt5", 2, 3>>}

\* The attribute values of an object, its board read from the heap.
deref(h, obj) == [obj EXCEPT !.board = h[obj.board]]

\* The constructor called with a state array and a player: a new object whose
\* board, after the final reset, is a new array.
new_env(h, cls, size, win_length, state, player) ==
    LET v == IF cls = "ttt" THEN TicTacToeEnv(state, player)
             ELSE ttt5_TicTacToeEnv(state, player, size, win_length)
    IN [heap |-> Append(h, v.board),
        obj |-> [v EXCEPT !.board = Len(h) + 1] @@ [cls |-> cls]]

\* obj.reset(): the board becomes a new array of zeros; no other object holds
\* the old array, whose place in the heap the new one takes.
env_reset(h, obj) ==
    LET v == IF obj.cls = "ttt" THEN reset(deref(h, obj)) ELSE ttt5_reset(deref(h, obj))
    IN [heap |-> [h EXCEPT ![obj.board] = v.board],
        obj |-> [v EXCEPT !.board = obj.board],
        state |-> v.board]

\* State arrays handed to the constructor of a size x size board: zeros, one
\* mark, a board full of X, a full board of both marks.
ArgStates(size) ==
    { [k \in 1..(size * size) |-> 0],
      [k \in 1..(size * size) |-> IF k = 1 THEN 1 ELSE 0],
      [k \in 1..(size * size) |-> 1],
      [k \in 1..(size * size) |-> IF k % 2 = 1 THEN 1 ELSE -1] }

\* obj.step(action): the array is written in place, the state returned is a copy.
env_step(h, obj, action) ==
    LET r == IF obj.cls = "ttt" THEN step(deref(h, obj), action)
             ELSE ttt5_step(deref(h, obj), action)
    IN [heap |-> [h EXCEPT ![obj.board] = r.env.board],
        obj |-> [r.env EXCEPT !.board = obj.board],
        state |-> r.env.board, reward |-> r.reward, done |-> r.done, info |-> r.info,
        err |-> "none"]

\* Variant: the clone is given the original's array instead of a copy of it.
env_clone_sharing_board(h, obj) ==
    LET c == IF obj.cls = "ttt" THEN clone(deref(h, obj)) ELSE ttt5_clone(deref(h, obj))
    IN [heap |-> h, obj |-> [c EXCEPT !.board = obj.board] @@ [cls |-> obj.cls]]

\* obj.clone(): a new object whose board is board.copy().
env_clone(h, obj) ==
    LET c == IF obj.cls = "ttt" THEN clone(deref(h, obj)) ELSE ttt5_clone(deref(h, obj))
    IN [heap |-> Append(h, c.board),
        obj |-> [c EXCEPT !.board = Len(h) + 1] @@ [cls |-> obj.cls]]

\* What step will find when called with action on obj: a finished game, an
\* occupied cell.
step_finds(h, obj, action) ==
    [finished |-> obj.done, occupied |-> h[obj.board][action + 1] # 0]

\* An environment is constructed; no clone of it exists yet.
InitEnv ==
    /\ engine = "env"
    /\ pc = "env"
    /\ \E c \in EnvClasses : \E state \in ArgStates(c[2]) : \E player \in {1, -1} :
          /\ heap = new_env(<<>>, c[1], c[2], c[3], state, player).heap
          /\ initial_env = new_env(<<>>, c[1], c[2], c[3], state, player).obj
          /\ call_in = [called |-> TRUE, fn |-> "init", on |-> "env",
                        state |-> state, player |-> player]
    /\ current_env = Idle
    /\ i = 0
    /\ call_out = NoCall
    /\ num_simulations = 0 /\ tree = <<>> /\ node = None /\ result = 0
    /\ ret = None /\ err = "none" /\ passes = <<>>

\* env.step(action) with any cell of the board, before the environment is cloned.
E_Step ==
    /\ engine = "env" /\ pc = "env" /\ current_env = Idle /\ i < MaxEnvCalls
    /\ \E action \in 0..(Len(heap[initial_env.board]) - 1) :
          LET r == env_step(heap, initial_env, action)
          IN /\ heap' = r.heap
             /\ initial_env' = r.obj
             /\ call_out' = [called |-> TRUE, reward |-> r.reward, done |-> r.done,
                             info |-> r.info]
             /\ err' = r.err
             /\ call_in' = [called |-> TRUE, fn |-> "step", on |-> "env"]
                            @@ step_finds(heap, initial_env, action)
    /\ i' = i + 1
    /\ UNCHANGED <<engine, pc, current_env, num_simulations, tree, node, result, ret,
                   passes>>

\* env.reset(), before the environment is cloned.
E_Reset ==
    /\ engine = "env" /\ pc = "env" /\ current_env = Idle
    /\ heap' = env_reset(heap, initial_env).heap
    /\ initial_env' = env_reset(heap, initial_env).obj
    /\ call_in' = [called |-> TRUE, fn |-> "reset", on |-> "env"]
    /\ call_out' = [called |-> TRUE, state |-> env_reset(heap, initial_env).state]
    /\ err' = "none"
    /\ UNCHANGED <<engine, pc, current_env, i, num_simulations, tree, node, result,
                   ret, passes>>

\* clone_env = env.clone()
E_Clone ==
    /\ engine = "env" /\ pc = "env" /\ current_env = Idle
    /\ heap' = env_clone(heap, initial_env).heap
    /\ current_env' = env_clone(heap, initial_env).obj
    /\ call_in' = [called |-> TRUE, fn |-> "clone", on |-> "env"]
    /\ call_out' = NoCall
    /\ err' = "none"
    /\ UNCHANGED <<engine, pc, initial_env, i, num_simulations, tree, node, result,
                   ret, passes>>

\* clone_env.step(action) with any cell of the board.
E_StepClone ==
    /\ engine = "env" /\ pc = "env" /\ current_env # Idle /\ i < MaxEnvCalls
    /\ \E action \in 0..(Len(heap[current_env.board]) - 1) :
          LET r == env_step(heap, current_env, action)
          IN /\ heap' = r.heap
             /\ current_env' = r.obj
             /\ call_out' = [called |-> TRUE, reward |-> r.reward, done |-> r.done,
                             info |-> r.info]
             /\ err' = r.err
             /\ call_in' = [called |-> TRUE, fn |-> "step", on |-> "clone_env"]
                            @@ step_finds(heap, current_env, action)
    /\ i' = i + 1
    /\ UNCHANGED <<engine, pc, initial_env, num_simulations, tree, node, result, ret,
                   passes>>

NextEnv == E_Step \/ E_Reset \/ E_Clone \/ E_StepClone

SpecEnv == InitEnv /\ [][NextEnv]_vars

\* ------------------------------------------------ the board search on objects
\* mcts of mcts.py with every environment an object of its own: heap.objects holds
\* the TicTacToeEnv objects (board is the index of an array in heap.arrays), and a
\* node, the caller and the rollout each name an object by its index.  A method
\* reads and writes the object it is called on, and an array is written in place.

\* The object as its methods see it: board, current_player and done.
value_of(h, obj) ==
    [board |-> h.arrays[h.objects[obj].board],
     current_player |-> h.objects[obj].current_player,
     done |-> h.objects[obj].done]

\* The heap after a method has left the object and its array holding env.
written(h, obj, env) ==
    [objects |-> [h.objects EXCEPT ![obj].current_player = env.current_player,
                                   ![obj].done = env.done],
     arrays |-> [h.arrays EXCEPT ![h.objects[obj].board] = env.board]]

\* Variant: clone returns the object it is called on.
clone_object_returning_self(h, obj) == [heap |-> h, obj |-> obj]

\* clone, ttt.py lines 150-156: a new object with a copy of the array.
clone_object(h, obj) ==
    LET copy == clone(value_of(h, obj))
    IN [heap |-> [objects |-> Append(h.objects,
                                     [board |-> Len(h.arrays) + 1,
                                      current_player |-> copy.current_player,
                                      done |-> copy.done]),
                  arrays |-> Append(h.arrays, copy.board)],
        obj |-> Len(h.objects) + 1]

\* step called on an object.
step_object(h, obj, action) == written(h, obj, step(value_of(h, obj), action).env)

\* get_valid_actions called on an object: it sets done on a full board.
get_valid_actions_object(h, obj) ==
    written(h, obj, after_get_valid_actions(value_of(h, obj)))

\* Node.__init__, mcts.py lines 21-28: the node keeps a clone of env, and
\* get_valid_actions runs on env itself.
Node_object(h, env, parent, action) ==
    LET c == clone_object(h, env)
    IN [heap |-> get_valid_actions_object(c.heap, env),
        node |-> [env |-> c.obj, parent |-> parent, action |-> action,
                  reward |-> 0, visit |-> 0, children |-> <<>>,
                  untried_action |-> get_valid_actions(value_of(c.heap, env))]]

\* Node.expand_child, mcts.py lines 30-37: the move is made on a clone of the
\* node's environment, and the child is built from that clone.
expand_child_object(h, t, n, action) ==
    LET c == clone_object(h, t[n].env)
        made == Node_object(step_object(c.heap, c.obj, action), c.obj, n, action)
        next_node == Len(t) + 1
        registered == Append([t EXCEPT ![n].children = dict_set(@, action, next_node)],
                             made.node)
    IN IF action \in Range(t[n].untried_action)
       THEN [heap |-> made.heap,
             tree |-> [registered EXCEPT ![n].untried_action = list_remove(@, action)],
             node |-> next_node, err |-> "none"]
       ELSE [heap |-> made.heap, tree |-> registered, node |-> None,
             err |-> "ValueError"]

\* The caller holds an environment reached by legal play and calls mcts on it.
InitObj ==
    /\ engine = "obj"
    /\ \E e \in StartEnvs :
          heap = [objects |-> <<[board |-> 1, current_player |-> e.current_player,
                                 done |-> e.done]>>,
                  arrays |-> <<e.board>>]
    /\ initial_env = 1
    /\ num_simulations \in 0..ObjMaxSims
    /\ tree = <<>>
    /\ i = 0
    /\ pc = "call"
    /\ node = None
    /\ current_env = None
    /\ result = 0
    /\ ret = None
    /\ err = "none"
    /\ passes = <<>>
    /\ call_in = NoCall
    /\ call_out = NoCall

\* mcts line 122: root = Node(initial_env, parent=None, action=None).
O_Root ==
    /\ engine = "obj" /\ pc = "call"
    /\ LET made == Node_object(heap, initial_env, None, None)
       IN /\ heap' = made.heap
          /\ tree' = <<made.node>>
    /\ pc' = "loop"
    /\ UNCHANGED <<engine, initial_env, num_simulations, i, node, current_env, result,
                   ret, err, passes, call_in, call_out>>

\* mcts lines 124-125.
O_StartSim ==
    /\ engine = "obj" /\ pc = "loop" /\ i < num_simulations
    /\ node' = 1
    /\ pc' = "select"
    /\ UNCHANGED <<heap, engine, initial_env, num_simulations, i, tree, current_env,
                   result, ret, err, passes, call_in, call_out>>

\* mcts lines 128-129.
O_Select ==
    /\ engine = "obj" /\ pc = "select"
    /\ Len(tree[node].untried_action) = 0 /\ ~value_of(heap, tree[node].env).done
    /\ LET best == choose_best_child(tree, node, 14)
       IN IF best = None
          THEN /\ err' = "AttributeError" /\ pc' = "raised" /\ node' = None
          ELSE /\ node' = best /\ pc' = "select" /\ err' = err
    /\ UNCHANGED <<heap, engine, initial_env, num_simulations, i, tree, current_env,
                   result, ret, passes, call_in, call_out>>

\* mcts lines 132-133, then Node.rollout line 59 on the new node.
O_Expand ==
    /\ engine = "obj" /\ pc = "select"
    /\ ~(Len(tree[node].untried_action) = 0 /\ ~value_of(heap, tree[node].env).done)
    /\ ~value_of(heap, tree[node].env).done
    /\ \E action \in Range(tree[node].untried_action) :
          LET e == expand_child_object(heap, tree, node, action)
              c == clone_object(e.heap, e.tree[e.node].env)
          IN /\ tree' = e.tree
             /\ node' = e.node
             /\ heap' = c.heap
             /\ current_env' = c.obj
    /\ pc' = "rollout"
    /\ UNCHANGED <<engine, initial_env, num_simulations, i, result, ret, err, passes,
                   call_in, call_out>>

\* mcts line 132 false, then Node.rollout line 59.
O_SkipExpand ==
    /\ engine = "obj" /\ pc = "select"
    /\ ~(Len(tree[node].untried_action) = 0 /\ ~value_of(heap, tree[node].env).done)
    /\ value_of(heap, tree[node].env).done
    /\ LET c == clone_object(heap, tree[node].env)
       IN heap' = c.heap /\ current_env' = c.obj
    /\ pc' = "rollout"
    /\ UNCHANGED <<engine, initial_env, num_simulations, i, tree, node, result, ret,
                   err, passes, call_in, call_out>>

\* Node.rollout lines 61-64: get_valid_actions, a random choice, and the step.
O_RolloutStep ==
    /\ engine = "obj" /\ pc = "rollout" /\ ~value_of(heap, current_env).done
    /\ \E action \in Range(get_valid_actions(value_of(heap, current_env))) :
          heap' = step_object(get_valid_actions_object(heap, current_env),
                              current_env, action)
    /\ UNCHANGED <<engine, initial_env, num_simulations, i, pc, tree, node, current_env,
                   result, ret, err, passes, call_in, call_out>>

\* Node.rollout lines 67-72.
O_RolloutEnd ==
    /\ engine = "obj" /\ pc = "rollout" /\ value_of(heap, current_env).done
    /\ result' = rollout_result(value_of(heap, tree[node].env),
                                value_of(heap, current_env))
    /\ pc' = "backprop"
    /\ UNCHANGED <<heap, engine, initial_env, num_simulations, i, tree, node,
                   current_env, ret, err, passes, call_in, call_out>>

\* mcts line 139.
O_Backpropagate ==
    /\ engine = "obj" /\ pc = "backprop"
    /\ tree' = backpropagate(tree, node, result)
    /\ i' = i + 1
    /\ pc' = "loop"
    /\ UNCHANGED <<heap, engine, initial_env, num_simulations, node, current_env,
                   result, ret, err, passes, call_in, call_out>>

\* mcts line 149.
O_Return ==
    /\ engine = "obj" /\ pc = "loop" /\ i >= num_simulations
    /\ LET best == choose_best_child(tree, 1, 0)
       IN IF best = None
          THEN /\ err' = "AttributeError" /\ pc' = "raised" /\ ret' = ret
          ELSE /\ ret' = tree[best].action /\ pc' = "done" /\ err' = err
    /\ UNCHANGED <<heap, engine, initial_env, num_simulations, i, tree, node,
                   current_env, result, passes, call_in, call_out>>

NextObj ==
    \/ O_Root \/ O_StartSim \/ O_Select \/ O_Expand \/ O_SkipExpand
    \/ O_RolloutStep \/ O_RolloutEnd \/ O_Backpropagate \/ O_Return

SpecObj == InitObj /\ [][NextObj]_vars

\* ------------------------------------------------ views shared by the claims

Searching == engine \in {"ttt", "bj"}

Nodes == 1..Len(tree)

Visits(t, n) == IF engine = "ttt" THEN t[n].visit ELSE t[n].visits

Value(t, n) == IF engine = "ttt" THEN t[n].reward ELSE t[n].value

Untried(t, n) == IF engine = "ttt" THEN t[n].untried_action ELSE t[n].untried_actions

Terminal(t, n) == IF engine = "ttt" THEN t[n].env.done ELSE t[n].is_terminated

\* The legal actions computed when node n was constructed.
Legal(t, n) == IF engine = "ttt" THEN Range(get_valid_actions(t[n].env)) ELSE {0, 1}

\* The search call is over: it returned or it raised.
Over == pc \in {"done", "raised"}

\* No simulation is under way.
BetweenSims == pc \in {"loop", "done", "raised"}

\* The nodes the simulation under way has entered.
OnPath == IF BetweenSims \/ node = None THEN {} ELSE path_to_root(tree, node)

\* ------------------------------------------------ C1

C1_Counts ==
    Searching =>
       /\ \A n \in Nodes :
             Visits(tree, n) = passes[n] - (IF n \in OnPath THEN 1 ELSE 0)
       /\ BetweenSims => Visits(tree, 1) = i
       /\ Over => Visits(tree, 1) = num_simulations

C1_Step ==
    Searching =>
       /\ Len(tree') >= Len(tree)
       /\ \A n \in Nodes :
             /\ Visits(tree', n) >= Visits(tree, n)
             /\ Visits(tree', n) <= Visits(tree, n) + 1

\* C1: in both engines every node's visit count equals the number of simulations
\* whose select/expand path entered the node (during a simulation, one less on the
\* path under way), the root's count after N simulations is exactly N, and no count
\* ever decreases or grows by more than one in a step.
C1_VisitCounts == []C1_Counts /\ [][C1_Step]_vars

\* A finished search in which the selection passed twice through a non-root node.
C1_Witness ==
    /\ Searching /\ pc = "done" /\ i = num_simulations /\ i >= 3
    /\ \E n \in Nodes : n # 1 /\ Visits(tree, n) >= 2

\* ------------------------------------------------ C2

\* The amount a step adds to node n's accumulated reward.
Added(n) == Value(tree', n) - Value(tree, n)

C2_Step ==
    engine = "ttt" /\ pc = "backprop" =>
       \A n \in path_to_root(tree, node) :
          tree[n].parent # None => Added(tree[n].parent) = -Added(n)

\* C2: in the board-game search, on every edge of the backpropagation path the
\* amount added to the parent's reward is the negation of the amount added to the
\* child's.
C2_SignFlip == [][C2_Step]_vars

\* A simulation that was won at a child has been backpropagated to its parent.
C2_Witness ==
    /\ engine = "ttt" /\ pc = "loop" /\ i = 1
    /\ \E n \in Nodes :
          /\ tree[n].parent # None
          /\ tree[n].reward = 1 /\ tree[tree[n].parent].reward = -1

\* ------------------------------------------------ C3

\* The finished game seen by a player: +1 won, -1 lost, 0 drawn.
Outcome(winner, player) ==
    IF winner = 0 THEN 0 ELSE IF winner = player THEN 1 ELSE -1

C3_Step ==
    engine = "ttt" /\ pc = "backprop" =>
       \A n \in path_to_root(tree, node) :
          Added(n) = Outcome(check_winner(current_env.board), tree[n].env.current_player)

\* C3: in the board-game search every node on the backpropagation path receives the
\* finished game's outcome as seen by that node's own player to move, also when the
\* leaf is a terminal node.
C3_OwnPerspective == [][C3_Step]_vars

\* ------------------------------------------------ C4

\* C4: a search that ends with a root without children returns None and raises
\* nothing, in both engines.
C4_NoneReturned ==
    Searching /\ Over /\ tree[1].children = <<>> =>
       pc = "done" /\ ret = None /\ err = "none"

\* ------------------------------------------------ C5

C5_Disjoint ==
    Searching =>
       \A n \in Nodes :
          /\ Range(Untried(tree, n)) \cap dict_keys(tree[n].children) = {}
          /\ Range(Untried(tree, n)) \cup dict_keys(tree[n].children) \subseteq Legal(tree, n)

C5_Shrinks ==
    Searching =>
       \A n \in Nodes :
          /\ Range(Untried(tree', n)) \subseteq Range(Untried(tree, n))
          /\ Len(Untried(tree', n)) <= Len(Untried(tree, n))
          /\ Legal(tree', n) = Legal(tree, n)

\* C5: for every node at every point of a search, in both engines, the untried
\* actions and the children's keys are disjoint, both lie within the legal actions
\* computed at the node's construction, and the untried list only shrinks.
C5_UntriedChildren == []C5_Disjoint /\ [][C5_Shrinks]_vars

\* A node with a child under one action and another action still untried.
C5_Witness ==
    /\ Searching
    /\ \E n \in Nodes : tree[n].children # <<>> /\ Untried(tree, n) # <<>>

\* ------------------------------------------------ C6

\* C6: every terminal node has an empty untried-action list, in both engines.
C6_TerminalNoUntried ==
    Searching => \A n \in Nodes : Terminal(tree, n) => Untried(tree, n) = <<>>

\* ------------------------------------------------ C8

Kids(t, n) == dict_values(t[n].children)

\* mean(a) <= mean(b) for visited nodes a and b.
MeanLeq(t, a, b) == Value(t, a) * Visits(t, b) <= Value(t, b) * Visits(t, a)

\* C8: a search that ends with a root that has children returns the action of the
\* root child of maximal mean value, the first such child in insertion order.
C8_BestMean ==
    Searching /\ Over /\ tree[1].children # <<>> =>
       LET kids == Kids(tree, 1)
       IN /\ pc = "done"
          /\ \A k \in 1..Len(kids) : Visits(tree, kids[k]) >= 1
          /\ \E k \in 1..Len(kids) :
                /\ ret = tree[kids[k]].action
                /\ \A j \in 1..Len(kids) : MeanLeq(tree, kids[j], kids[k])
                /\ \A j \in 1..(k - 1) : ~MeanLeq(tree, kids[k], kids[j])

\* A finished search whose returned child shares the maximal mean with a later child.
C8_Witness ==
    /\ Searching /\ pc = "done"
    /\ LET kids == Kids(tree, 1)
       IN \E k \in 1..Len(kids) : \E j \in (k + 1)..Len(kids) :
             /\ ret = tree[kids[k]].action
             /\ MeanLeq(tree, kids[j], kids[k]) /\ MeanLeq(tree, kids[k], kids[j])

\* ------------------------------------------------ C7

\* C7: in both engines an unvisited child scores +infinity, and the choice among
\* children of which one at least is unvisited falls on an unvisited child, whatever
\* the visited children's statistics and the exploration weight.
C7_UnvisitedFirst ==
    engine = "ucb" /\ pc = "returned" =>
       /\ \A k \in 1..Len(call_in.stats) :
             call_in.stats[k].visit = 0 => call_out.ucb[k] = PosInf
       /\ (\E k \in 1..Len(call_in.stats) : call_in.stats[k].visit = 0) =>
             (call_out.best # None /\ call_in.stats[call_out.best].visit = 0)

\* With weight 0, an unvisited child was chosen over an earlier child of mean 1.
C7_Witness ==
    /\ engine = "ucb" /\ pc = "returned" /\ call_in.exploration_weight = 0
    /\ Len(call_in.stats) >= 2 /\ call_out.best >= 2
    /\ call_in.stats[call_out.best].visit = 0
    /\ call_in.stats[1].visit >= 1 /\ call_in.stats[1].reward = call_in.stats[1].visit

\* ------------------------------------------------ C9

\* value / n + w * sqrt(2 * ln(N) / n) in the model's fixed point.
ScoreWithFactorTwo(value, n, parent_visits, w) ==
    (value * Unit) \div n + times_weight(w, sqrt_e8((2 * LnE8[parent_visits]) \div n))

\* C9: in both engines the score of a visited child is
\* valueSum / n + w * sqrt(2 * ln(N) / n).
C9_FactorTwo ==
    engine = "ucb" /\ pc = "returned" =>
       \A k \in 1..Len(call_in.stats) :
          call_in.stats[k].visit >= 1 =>
             call_out.ucb[k] = ScoreWithFactorTwo(call_in.stats[k].reward,
                                                  call_in.stats[k].visit,
                                                  call_in.parent_visits,
                                                  call_in.exploration_weight)

\* ------------------------------------------------ C10

C10_Step ==
    (/\ pc = "api" /\ i' = i + 1
     /\ (Untried(tree, call_in'.n) = <<>> \/ Terminal(tree, call_in'.n)))
    => (call_out'.err = "ExpansionError" /\ tree' = tree)

\* C10: expansion called on a node without untried actions, or on a terminal node,
\* fails with an ExpansionError and creates or registers no child, in both engines.
C10_ExpansionFails == [][C10_Step]_vars

\* ------------------------------------------------ claims on the environments

\* A step call has just been made (every step call counts in i).
StepCalled == engine = "env" /\ i' = i + 1

\* The object the next step call is made on.
StepTarget == IF current_env = Idle THEN initial_env ELSE current_env

\* C11: a step call on a finished game fails with TerminalStateError, and a step
\* call on an occupied cell (the only calls that leave the board as it was) fails
\* with InvalidAction; neither returns normally.
C11_Step ==
    StepCalled =>
       /\ StepTarget.done => err' = "TerminalStateError"
       /\ (~StepTarget.done /\ heap' = heap) => err' = "InvalidAction"

C11_RejectedStepFails == [][C11_Step]_vars

\* Two environments agree on board, current_player and done, and on size and
\* win_length where the class has them.
SameFields(a, b) ==
    /\ a.board = b.board
    /\ a.current_player = b.current_player
    /\ a.done = b.done
    /\ a.cls = b.cls
    /\ a.cls = "ttt5" => (a.size = b.size /\ a.win_length = b.win_length)

\* C12: right after clone() the clone equals the original in board,
\* current_player and done (and size, win_length), and no step call on the
\* clone changes any attribute of the original, its board array included.
C12_Step ==
    /\ (engine = "env" /\ current_env = Idle /\ current_env' # Idle)
          => SameFields(deref(heap', current_env'), deref(heap', initial_env'))
    /\ (engine = "env" /\ current_env # Idle)
          => deref(heap', initial_env') = deref(heap, initial_env)

C12_CloneIndependent == [][C12_Step]_vars

\* A clone taken after a move has been stepped to a finished game while the
\* original is still running.
C12_Witness ==
    /\ engine = "env" /\ current_env # Idle
    /\ \E k \in DOMAIN heap[initial_env.board] : heap[initial_env.board][k] # 0
    /\ heap[current_env.board] # heap[initial_env.board]
    /\ current_env.done /\ ~initial_env.done

\* ------------------------------------------------ claims on the searches (continued)

\* C13: on a board that is not finished and has exactly one empty cell, mcts with
\* any budget of at least one simulation returns that cell.
C13_SingleAction ==
    (/\ engine = "ttt" /\ Over
     /\ ~initial_env.done
     /\ Len(get_valid_actions(initial_env)) = 1
     /\ num_simulations >= 1)
    => (pc = "done" /\ err = "none" /\ ret = get_valid_actions(initial_env)[1])

\* Such a call has returned after two or more simulations, the second of which
\* went through selection down to the only (terminal) child.
C13_Witness ==
    /\ engine = "ttt" /\ pc = "done"
    /\ ~initial_env.done
    /\ Len(get_valid_actions(initial_env)) = 1
    /\ num_simulations >= 2
    /\ ret = get_valid_actions(initial_env)[1]
    /\ Len(tree) = 2 /\ tree[2].visit = num_simulations

\* The empty cells with which the player to move wins at once.
WinningCells(env) ==
    {a \in Range(get_valid_actions(env)) :
        check_winner(step(env, a).env.board) = env.current_player}

\* C14: when X is to move and can complete a line, a search that has expanded
\* every child of the root returns a winning cell, whatever the expansion order
\* and the rollouts were.
C14_WinningMove ==
    (/\ engine = "ttt" /\ pc = "done"
     /\ ~initial_env.done /\ initial_env.current_player = 1
     /\ WinningCells(initial_env) # {}
     /\ tree[1].untried_action = <<>>)
    => ret \in WinningCells(initial_env)

\* A hand with its usable ace counted as 1; every card drawn raises it.
HardTotal(sum, usable_ace) == sum - 10 * usable_ace

\* What is left of the running simulation, larger before each step than after:
\* the depth selection can still descend, then the cells (board game) or the
\* points (card game) a rollout can still add, then the points the dealer can
\* still add, then the backpropagation.
LeftOfSimulation ==
    CASE pc = "select" ->
            150 + Len(tree) - Cardinality(path_to_root(tree, node))
      [] pc = "rollout" /\ engine = "ttt" ->
            100 + Len(get_valid_actions(current_env))
                + (IF current_env.done THEN 0 ELSE 1)
      [] pc = "rollout" /\ engine = "bj" ->
            100 + (IF rollout_over(current_env) THEN 0
                   ELSE 32 - HardTotal(current_env.state[1], current_env.state[3]))
      [] pc = "dealer" ->
            50 + 27 - HardTotal(current_env.dealer_sum, current_env.dealer_usable_ace)
      [] pc = "backprop" -> 1
      [] OTHER -> 199

\* The variant of a search call: simulations left, then what is left of this one.
Rank ==
    IF Over THEN 0
    ELSE 200 * (num_simulations - i) + LeftOfSimulation

C15_Step ==
    /\ Rank' < Rank
    /\ (engine = "ttt" /\ pc = "rollout" /\ pc' = "rollout")
          => Len(get_valid_actions(current_env')) = Len(get_valid_actions(current_env)) - 1

\* The random choice of a board rollout has something to choose from: an
\* environment that is not done has an empty cell.
CanChoose ==
    (engine = "ttt" /\ pc = "rollout" /\ ~current_env.done)
       => get_valid_actions(current_env) # <<>>

\* C15: every search call ends, after exactly num_simulations iterations: no
\* random choice is made from an empty list, every step lowers a variant that
\* never goes below zero (so no run is infinite), a board rollout fills one
\* empty cell per step, and in the card game every card drawn in a rollout or
\* by the dealer raises a total that has an upper limit.
C15_Terminates ==
    /\ [](Searching => CanChoose)
    /\ [](Searching => (Rank >= 0 /\ LeftOfSimulation \in 1..199))
    /\ [](Searching /\ Over => i = num_simulations)
    /\ [][C15_Step]_vars

\* A card-game call that ran its whole budget and has returned, having passed
\* through selection, a rollout and the dealer's play.
C15_Witness ==
    /\ engine = "bj" /\ pc = "done"
    /\ i = num_simulations /\ num_simulations = BjMaxSims
    /\ current_env.dealer_sum # None /\ current_env.dealer_sum > current_env.state[2]
    /\ \E n \in Nodes : n # 1 /\ Visits(tree, n) >= 2

\* C16: a card-game rollout that ends by a bust has reward -1; any other rollout
\* ended with the stop action, the dealer has then played to 17 or more, and the
\* reward is +1 when the dealer is bust or below the player, -1 when above, 0
\* when equal; also when the rollout started at a node reached by drawing.
C16_RolloutReward ==
    (engine = "bj" /\ pc = "backprop") =>
       LET player == current_env.state[1]
           dealer == current_env.dealer_sum
       IN IF player > 21 THEN result = -1
          ELSE /\ current_env.action = 0
               /\ dealer # None /\ dealer >= 17
               /\ result = (IF dealer > 21 \/ dealer < player THEN 1
                            ELSE IF dealer > player THEN -1 ELSE 0)

\* The object a step call was made on, after the call.
StepTargetAfter == IF current_env = Idle THEN initial_env' ELSE current_env'

\* C17: every step call that places a mark hands the move to the other player.
C17_Step ==
    (StepCalled /\ heap' # heap)
       => StepTargetAfter.current_player = -StepTarget.current_player

C17_PlayerAlternates == [][C17_Step]_vars

\* The selection loop calls choose_best_child on node; the return statement
\* calls it on the root.
SelectCall == Searching /\ pc = "select" /\ pc' \in {"select", "raised"}

FinalCall == Searching /\ pc = "loop" /\ pc' \in {"done", "raised"}

\* Node n is not terminal, has no untried action and has a child.
SelectableNode(n) ==
    /\ ~Terminal(tree, n)
    /\ Untried(tree, n) = <<>>
    /\ tree[n].children # <<>>

\* C18: every call of choose_best_child the drivers make, in the selection
\* loop and at the return, is on a non-terminal node with no untried action
\* and at least one child.
C18_Step ==
    /\ SelectCall => SelectableNode(node)
    /\ FinalCall => SelectableNode(1)

C18_CallsOnSelectable == [][C18_Step]_vars

\* C19: while the reward of a terminal leaf is computed, the state it is
\* computed from is the leaf's own: no cell is filled, no card added to the
\* player's hand.
C19_TerminalLeafUntouched ==
    (Searching /\ pc \in {"rollout", "dealer", "backprop"} /\ Terminal(tree, node))
    => IF engine = "ttt" THEN current_env.board = tree[node].env.board
       ELSE current_env.state = tree[node].state

\* C20: a terminal node has no children, at every point of both searches.
C20_TerminalChildless ==
    Searching => \A n \in Nodes : Terminal(tree, n) => tree[n].children = <<>>

\* A terminal node that still lists untried actions has been reached twice,
\* so at least once through selection, and was not expanded.
C20_Witness ==
    /\ Searching
    /\ \E n \in Nodes : /\ n # 1 /\ Terminal(tree, n) /\ Visits(tree, n) >= 2
                        /\ Untried(tree, n) # <<>> /\ tree[n].children = <<>>

\* ------------------------------------------------ claims on expansion (continued)

\* C21: an expansion call that names an action which already has a child
\* creates no node, leaves the node's children dict as it was, and leaves the
\* registered child as it was.
C21_Step ==
    (/\ pc = "api" /\ i' = i + 1
     /\ call_in'.action \in dict_keys(tree[call_in'.n].children))
    => (/\ Len(tree') = Len(tree)
        /\ tree'[call_in'.n].children = tree[call_in'.n].children
        /\ \A k \in Range(dict_values(tree[call_in'.n].children)) : tree'[k] = tree[k])

C21_ExpandedOnce == [][C21_Step]_vars

\* ------------------------------------------------ claims on the searches (continued)

\* The objects the search works on: the nodes' environments and the rollout's.
WorkingObjects ==
    {tree[n].env : n \in 1..Len(tree)}
       \cup (IF current_env = None THEN {} ELSE {current_env})

\* Every object the search works on is another object than the caller's and
\* holds another array.
C22_Clones ==
    engine = "obj" =>
       \A obj \in WorkingObjects :
          /\ obj # initial_env
          /\ heap.objects[obj].board # heap.objects[initial_env].board

\* The caller still holds the same object, the object the same array and fields,
\* and the array the same cells.
C22_Step ==
    engine = "obj" =>
       /\ initial_env' = initial_env
       /\ heap'.objects[initial_env] = heap.objects[initial_env]
       /\ heap'.arrays[heap.objects[initial_env].board]
             = heap.arrays[heap.objects[initial_env].board]

\* C22: no step of a call mcts(initial_env, n) changes the caller's environment:
\* its board, current_player and done stay what they were before the call,
\* whatever the budget and the random choices, and the root, every child and
\* every rollout work on objects and arrays of their own.
C22_CallerEnvUnchanged == []C22_Clones /\ [][C22_Step]_vars

\* A call has returned after two simulations: two children were expanded by a step
\* on a clone, and the rollout's clone holds a board that is not the caller's.
C22_Witness ==
    /\ engine = "obj" /\ pc = "done" /\ i = 2 /\ Len(tree) = 3
    /\ value_of(heap, current_env).board # value_of(heap, initial_env).board
    /\ \A n \in 2..3 :
          value_of(heap, tree[n].env).board # value_of(heap, initial_env).board

RECURSIVE SumSeq(_)
SumSeq(s) == IF s = <<>> THEN 0 ELSE Head(s) + SumSeq(Tail(s))

\* The visit counts, and the rewards, of the children of node n added up.
KidVisits(t, n) == SumSeq([k \in 1..Len(Kids(t, n)) |-> Visits(t, Kids(t, n)[k])])

KidValues(t, n) == SumSeq([k \in 1..Len(Kids(t, n)) |-> Value(t, Kids(t, n)[k])])

\* The simulations whose rollout started at node n: every visit of a terminal
\* node, the one that created a non-terminal node, none at a non-terminal root.
OwnRollouts(t, n) ==
    IF Terminal(t, n) THEN Visits(t, n) ELSE IF n = 1 THEN 0 ELSE 1

\* C23: after every complete simulation, in either engine, every node but the
\* root has been visited, and a node's visit count is the sum of its children's
\* visit counts plus the number of rollouts started at the node itself.
C23_VisitSums ==
    (Searching /\ BetweenSims) =>
       \A n \in Nodes :
          /\ n # 1 => Visits(tree, n) >= 1
          /\ Visits(tree, n) = KidVisits(tree, n) + OwnRollouts(tree, n)

\* Simulations are complete and the tree holds a non-terminal node below the
\* root that has a child of its own, and a terminal node below the root.
C23_Witness ==
    /\ Searching /\ BetweenSims
    /\ \E n \in Nodes : n # 1 /\ ~Terminal(tree, n) /\ Kids(tree, n) # <<>>
    /\ \E n \in Nodes : n # 1 /\ Terminal(tree, n)

\* A node's reward together with its children's rewards: what the rollouts
\* started at the node itself have contributed.
OwnResults(t, n) == Value(t, n) + KidValues(t, n)

C24_Sums ==
    (engine = "ttt" /\ BetweenSims) =>
       \A n \in Nodes :
          /\ Abs(tree[n].reward) <= tree[n].visit
          /\ Abs(OwnResults(tree, n)) <= OwnRollouts(tree, n)
          /\ (n = 1 /\ ~Terminal(tree, n)) => tree[n].reward = -KidValues(tree, n)

C24_Step ==
    engine = "ttt" =>
       \A n \in Nodes :
          OwnResults(tree', n) - OwnResults(tree, n)
             = IF pc = "backprop" /\ n = node THEN result ELSE 0

\* C24: in the board-game tree, after every complete simulation, |reward| <=
\* visit at every node, and a node's reward is the sum of the results of the
\* rollouts started at the node itself minus the sum of its children's rewards:
\* each backpropagation adds its result to that difference at the rollout's node
\* and leaves it unchanged everywhere else, so a non-terminal root's reward is
\* the negated sum of its children's rewards.
C24_RewardSums == []C24_Sums /\ [][C24_Step]_vars

\* Simulations are complete, a node below the root has a child with a reward
\* that is not zero, and the root's reward is not zero.
C24_Witness ==
    /\ engine = "ttt" /\ BetweenSims /\ tree[1].reward # 0
    /\ \E n \in Nodes : n # 1 /\ KidValues(tree, n) # 0

\* ------------------------------------------------ claims on the environments (continued)

\* The number of cells of a board holding mark.
Marks(board, mark) == Cardinality({k \in DOMAIN board : board[k] = mark})

\* check_winner() of an environment of either class.
WinnerOf(v) == IF v.cls = "ttt" THEN check_winner(v.board) ELSE ttt5_check_winner(v)

EnvInvariant(v) ==
    /\ v.done <=> (WinnerOf(v) # 0 \/ Marks(v.board, 0) = 0)
    /\ Marks(v.board, 1) - Marks(v.board, -1) \in {0, 1}
    /\ ~v.done => (v.current_player = 1 <=> Marks(v.board, 1) = Marks(v.board, -1))

\* C25: after the constructor, reset and any step calls, legal or not, on an
\* environment or its clone: done is true exactly when check_winner() is not 0
\* or no cell is empty, there are as many X as O or one X more, and while done
\* is false X is to move exactly when the counts are equal.
C25_EnvInvariant ==
    engine = "env" =>
       /\ EnvInvariant(deref(heap, initial_env))
       /\ current_env # Idle => EnvInvariant(deref(heap, current_env))

\* A game that ended in a draw on a full board, after which one more step call
\* was made and rejected.
C25_Witness ==
    /\ engine = "env" /\ initial_env.done
    /\ WinnerOf(deref(heap, initial_env)) = 0
    /\ call_in.fn = "step" /\ call_in.finished

\* C26: a newly constructed environment has an all-empty board, X to move and
\* done false, whatever state array and player the constructor was given; and a
\* board becomes other than empty in a step call only.
C26_New ==
    (engine = "env" /\ call_in.fn = "init") =>
       /\ Marks(heap[initial_env.board], 0) = Len(heap[initial_env.board])
       /\ initial_env.current_player = 1
       /\ ~initial_env.done

C26_Step ==
    (/\ engine = "env"
     /\ heap'[initial_env'.board] # heap[initial_env.board]
     /\ Marks(heap'[initial_env'.board], 0) # Len(heap'[initial_env'.board]))
    => StepCalled

C26_ConstructorResets == []C26_New /\ [][C26_Step]_vars

\* The constructor was given a full board and O as the player.
C26_Witness ==
    /\ engine = "env" /\ call_in.fn = "init"
    /\ call_in.player = -1
    /\ Marks(call_in.state, 0) = 0
    /\ Marks(heap[initial_env.board], 0) = Len(heap[initial_env.board])

\* C27: a step call made on a finished game, or naming an occupied cell, leaves
\* board, current_player and done as they were; it returns reward 0 and done
\* true on a finished game, reward -1 and done false on an occupied cell.
C27_Step ==
    (StepCalled /\ (call_in'.finished \/ call_in'.occupied)) =>
       /\ deref(heap', StepTargetAfter) = deref(heap, StepTarget)
       /\ IF call_in'.finished
          THEN call_out'.reward = 0 /\ call_out'.done
          ELSE call_out'.reward = -1 /\ ~call_out'.done

C27_RejectedStep == [][C27_Step]_vars

\* Step calls have been rejected on a finished game won by O.
C27_Witness ==
    /\ engine = "env" /\ call_in.fn = "step" /\ call_in.finished
    /\ call_out.reward = 0 /\ call_out.done
    /\ WinnerOf(deref(heap, StepTarget)) = -1

====
